---- MODULE Spec2Model ----
(***************************************************************************)
(* Model of the slabikyx reading aid: the Czech syllabifier and the        *)
(* sentence pipeline of src/stores/textStore.ts and the highlighting state *)
(* of src/components/ReadingDisplay.vue.                                   *)
(*                                                                         *)
(* A JavaScript string is a sequence of characters; a character is a short *)
(* ASCII string.  A letter with a diacritic is written as its base letter  *)
(* followed by a mark: "a'" is a-acute, "c^" is c-caron, "u*" is u-ring.   *)
(* Positions are 0-based as in the source: charAt(s, i) is s[i].           *)
(***************************************************************************)
EXTENDS Integers, Sequences, FiniteSets, TLC

VARIABLES
    word,            \* argument of splitIntoSyllables
    syllables,       \* value returned by splitIntoSyllables; <<>> before the call
    specialCases,    \* the special-case table object as the latest call left it
    originalText,    \* textStore.originalText
    processedText,   \* textStore.processedText
    activeSegment,   \* ReadingDisplay refs
    activeWord,
    activeSyllable,
    speechSynthesis, \* 'speechSynthesis' in window
    utterances       \* utterances handed to window.speechSynthesis, not yet ended

vars == <<word, syllables, specialCases, originalText, processedText,
          activeSegment, activeWord, activeSyllable, speechSynthesis, utterances>>

----------------------------------------------------------------------------
(* Bounds *)

MaxWordLen == 5
MaxPieces == 4
MaxIndex == 2
MaxUtterances == 3

----------------------------------------------------------------------------
(* JavaScript string primitives *)

\* the null of the refs `ref<number | null>(null)`, outside the indices 0, 1, ...
null == -1

charAt(s, i) == s[i + 1]

substring(s, from, to) == SubSeq(s, from + 1, to)

UpperCaseLetters ==
    <<"A","B","C","D","E","F","G","H","I","J","K","L","M","N","O","P","Q","R",
      "S","T","U","V","W","X","Y","Z","A'","E'","E^","I'","O'","U'","U*","Y'",
      "C^","D^","N^","R^","S^","T^","Z^">>

LowerCaseLetters ==
    <<"a","b","c","d","e","f","g","h","i","j","k","l","m","n","o","p","q","r",
      "s","t","u","v","w","x","y","z","a'","e'","e^","i'","o'","u'","u*","y'",
      "c^","d^","n^","r^","s^","t^","z^">>

charToLowerCase(c) ==
    IF \E i \in 1..Len(UpperCaseLetters) : UpperCaseLetters[i] = c
    THEN LowerCaseLetters[CHOOSE i \in 1..Len(UpperCaseLetters) : UpperCaseLetters[i] = c]
    ELSE c

toLowerCase(s) == [i \in 1..Len(s) |-> charToLowerCase(s[i])]

RECURSIVE join(_)
join(parts) == IF parts = <<>> THEN <<>> ELSE Head(parts) \o join(Tail(parts))

----------------------------------------------------------------------------
(* splitIntoSyllables *)

wordPunctChars == {".", ",", "!", "?", ";", ":"}

\* index at which /[.,!?;:]+$/ matches, Len(w) when it does not
punctIndex(w) ==
    CHOOSE k \in 0..Len(w) :
        /\ \A j \in (k + 1)..Len(w) : w[j] \in wordPunctChars
        /\ k = 0 \/ w[k] \notin wordPunctChars

punctuationOf(w) == substring(w, punctIndex(w), Len(w))

wordWithoutPunctOf(w) == substring(w, 0, punctIndex(w))

specialCasesLiteral ==
    (<<"k","r","t","k","a">> :> <<<<"k","r","t">>, <<"k","a">>>>) @@
    (<<"j","e","m","n","o","u">> :> <<<<"j","e","m">>, <<"n","o","u">>>>) @@
    (<<"m","n","o","h","o">> :> <<<<"m","n","o">>, <<"h","o">>>>) @@
    (<<"c^","e","r","n","o","u">> :> <<<<"c^","e","r">>, <<"n","o","u">>>>) @@
    (<<"d","o","h","l","e'","d","n","e">> :> <<<<"d","o">>, <<"h","l","e'","d">>, <<"n","e">>>>) @@
    (<<"m","l","s","a'">> :> <<<<"m","l">>, <<"s","a'">>>>) @@
    (<<"z","a","h","r","a","d","n","i'">> :> <<<<"z","a">>, <<"h","r","a","d">>, <<"n","i'">>>>) @@
    (<<"z","a","h","r","a","d","n","i'","c","i">> :> <<<<"z","a">>, <<"h","r","a","d">>, <<"n","i'">>, <<"c","i">>>>) @@
    (<<"z","a","h","r","a","d","y">> :> <<<<"z","a">>, <<"h","r","a">>, <<"d","y">>>>) @@
    (<<"m","r","k","e","v">> :> <<<<"m","r">>, <<"k","e","v">>>>) @@
    (<<"r","o","s","t","l","i","n","a'","m">> :> <<<<"r","o","s","t">>, <<"l","i">>, <<"n","a'","m">>>>) @@
    (<<"o","d","l","a'","k","a","t">> :> <<<<"o","d">>, <<"l","a'">>, <<"k","a'","t">>>>)

\* a table hoisted out of the function: the object of the previous call is reused
hoistedSpecialCases(previous) == previous

\* `const specialCases = {...}` inside the function body: every call builds a
\* new object, whatever an earlier call did to its own
newSpecialCases(previous) == specialCasesLiteral

\* the key is looked up as typed
lookupKeyAsTyped(wordWithoutPunct) == wordWithoutPunct

lookupKey(wordWithoutPunct) == toLowerCase(wordWithoutPunct)

vowels == {"a", "a'", "e", "e'", "e^", "i", "i'", "o", "o'", "u", "u'", "u*", "y", "y'"}

syllabicConsonants == {"r", "l"}

\* 'ch' is an element of the list, but only single characters are tested against it
obstruents == {"p", "b", "t", "d", "t^", "d^", "k", "g", "f", "v", "s", "z", "s^", "z^",
               "ch", "h", "c", "c^"}

isNucleusAt(wordWithoutPunct, i) ==
    LET char == charToLowerCase(charAt(wordWithoutPunct, i))
        prevIsConsonant ==
            i = 0 \/ charToLowerCase(charAt(wordWithoutPunct, i - 1)) \notin vowels
        nextIsConsonant ==
            \/ i = Len(wordWithoutPunct) - 1
            \/ charToLowerCase(charAt(wordWithoutPunct, i + 1)) \notin vowels
    IN  \/ char \in vowels
        \/ char \in syllabicConsonants /\ prevIsConsonant /\ nextIsConsonant

RECURSIVE nucleiFrom(_, _)
nucleiFrom(wordWithoutPunct, i) ==
    IF i >= Len(wordWithoutPunct) THEN <<>>
    ELSE (IF isNucleusAt(wordWithoutPunct, i) THEN <<i>> ELSE <<>>)
         \o nucleiFrom(wordWithoutPunct, i + 1)

syllableNucleiPositions(wordWithoutPunct) == nucleiFrom(wordWithoutPunct, 0)

isObstruent(c) == c \in obstruents

isSonant(c) == ~isObstruent(c) /\ c \notin vowels

invalidInitials == {<<"d^", "m">>, <<"b", "v">>}

\* three or more consonants all move to the next syllable
splitPosOnsetMaximal(wordWithoutPunct, currentPos, nextPos) ==
    LET betweenNuclei == toLowerCase(substring(wordWithoutPunct, currentPos + 1, nextPos))
        consonantCount == Len(betweenNuclei)
    IN  IF consonantCount <= 1 THEN currentPos + 1
        ELSE IF consonantCount = 2 THEN
            IF \/ isObstruent(betweenNuclei[1]) /\ isSonant(betweenNuclei[2])
               \/ isObstruent(betweenNuclei[1]) /\ betweenNuclei[2] = "v"
            THEN currentPos + 1
            ELSE IF betweenNuclei \in invalidInitials THEN currentPos + 1
                 ELSE currentPos + 2
        ELSE currentPos + 1

\* the split of a vowel pair is placed like the split of a cluster
splitPosHiatusLate(wordWithoutPunct, currentPos, nextPos) ==
    LET betweenNuclei == toLowerCase(substring(wordWithoutPunct, currentPos + 1, nextPos))
        consonantCount == Len(betweenNuclei)
    IN  IF consonantCount = 0 THEN currentPos + 2
        ELSE IF consonantCount = 1 THEN currentPos + 1
        ELSE IF consonantCount = 2 THEN
            IF \/ isObstruent(betweenNuclei[1]) /\ isSonant(betweenNuclei[2])
               \/ isObstruent(betweenNuclei[1]) /\ betweenNuclei[2] = "v"
            THEN currentPos + 1
            ELSE IF betweenNuclei \in invalidInitials THEN currentPos + 1
                 ELSE currentPos + 2
        ELSE currentPos + 2

splitPos(wordWithoutPunct, currentPos, nextPos) ==
    LET betweenNuclei == toLowerCase(substring(wordWithoutPunct, currentPos + 1, nextPos))
        consonantCount == Len(betweenNuclei)
    IN  IF consonantCount = 0 THEN currentPos + 1
        ELSE IF consonantCount = 1 THEN currentPos + 1
        ELSE IF consonantCount = 2 THEN
            LET firstC == betweenNuclei[1]
                secondC == betweenNuclei[2]
            IN  IF \/ isObstruent(firstC) /\ isSonant(secondC)
                   \/ isObstruent(firstC) /\ secondC = "v"
                THEN currentPos + 1
                ELSE IF betweenNuclei \in invalidInitials THEN currentPos + 1
                     ELSE currentPos + 2
        ELSE currentPos + 2

\* the loop over adjacent nuclei: i is 0-based, acc the syllables pushed so far
RECURSIVE nucleiLoop(_, _, _, _, _)
nucleiLoop(wordWithoutPunct, positions, i, startIndex, acc) ==
    IF i >= Len(positions) - 1
    THEN [syllables |-> acc, startIndex |-> startIndex]
    ELSE LET pos == splitPos(wordWithoutPunct, positions[i + 1], positions[i + 2])
         IN  nucleiLoop(wordWithoutPunct, positions, i + 1, pos,
                        Append(acc, substring(wordWithoutPunct, startIndex, pos)))

\* syllables[syllables.length - 1] += punctuation
appendToLast(syls, punctuation) ==
    IF punctuation # <<>> /\ Len(syls) > 0
    THEN [syls EXCEPT ![Len(syls)] = @ \o punctuation]
    ELSE syls

\* The call splitIntoSyllables(w) when `previous` is the table object left by
\* the call before it: ret is the returned array, table the table object at
\* the return.
splitIntoSyllables(w, previous) ==
    LET table == newSpecialCases(previous)
        punctuation == punctuationOf(w)
        wordWithoutPunct == wordWithoutPunctOf(w)
        key == lookupKey(wordWithoutPunct)
        positions == syllableNucleiPositions(wordWithoutPunct)
    IN  IF Len(w) <= 1 THEN [ret |-> <<w>>, table |-> previous]
        ELSE IF key \in DOMAIN table
        THEN LET syls == appendToLast(table[key], punctuation)
             IN  [ret |-> syls, table |-> [table EXCEPT ![key] = syls]]
        ELSE IF Len(positions) = 0 THEN [ret |-> <<w>>, table |-> table]
        ELSE IF Len(positions) = 1 THEN [ret |-> <<w>>, table |-> table]
        ELSE LET loop == nucleiLoop(wordWithoutPunct, positions, 0, 0, <<>>)
                 withLast ==
                     IF loop.startIndex < Len(wordWithoutPunct)
                     THEN Append(loop.syllables,
                                 substring(wordWithoutPunct, loop.startIndex,
                                           Len(wordWithoutPunct)))
                     ELSE loop.syllables
             IN  [ret |-> appendToLast(withLast, punctuation), table |-> table]

----------------------------------------------------------------------------
(* Inputs of the syllabifier *)

WordAlphabet == {"a", "A", "r", "c", "v", "."}

BoundedWords == UNION {[1..n -> WordAlphabet] : n \in 0..MaxWordLen}

Vocabulary ==
    DOMAIN specialCasesLiteral \cup
    { <<"K","r","t","k","a">>, <<"k","r","t","k","a","?">>, <<"m","r","k","e","v",".">>,
      <<"M","L","S","A'","!","?">>, <<"o","d","l","a'","k","a","t",".">>,
      <<"d","o","m","e","c^","e","k">>, <<"u","c","h","o">>, <<"m","i'","c","h","a'">>,
      <<"C","r","n","a",",">>, <<"p","o","d","h","r","a","b","a'","v","a'">>,
      <<"o","b","v","o","d">>, <<"s","e","d^","m","a'">>, <<"J","d","e">>,
      <<"p","e","s",".">>, <<"k","r","t","e","c^","e","k">>, <<"v","l","k">> }

Words == BoundedWords \cup Vocabulary

----------------------------------------------------------------------------
(* The syllabifier applied to one drawn word *)

InitWord ==
    /\ word \in Words
    /\ syllables = <<>>
    /\ specialCases = specialCasesLiteral
    /\ originalText = <<>>
    /\ processedText = <<>>
    /\ activeSegment = null
    /\ activeWord = null
    /\ activeSyllable = null
    /\ speechSynthesis = TRUE
    /\ utterances = 0

CallSplitIntoSyllables ==
    LET r == splitIntoSyllables(word, specialCases)
    IN  /\ syllables' = r.ret
        /\ specialCases' = r.table
        /\ UNCHANGED <<word, originalText, processedText, activeSegment, activeWord,
                       activeSyllable, speechSynthesis, utterances>>

NextWord == CallSplitIntoSyllables

Spec == InitWord /\ [][NextWord]_vars

----------------------------------------------------------------------------
(* processedText *)

sentencePunctChars == {".", "!", "?"}

whitespace == {" ", "\n", "\t"}

\* first index >= i whose character is in set, Len(s) when there is none
indexOfAny(s, i, set) ==
    LET found == {j \in i..(Len(s) - 1) : charAt(s, j) \in set}
    IN  IF found = {} THEN Len(s) ELSE CHOOSE j \in found : \A k \in found : j <= k

\* first index >= i whose character is not in set, Len(s) when there is none
skipWhile(s, i, set) ==
    LET found == {j \in i..(Len(s) - 1) : charAt(s, j) \notin set}
    IN  IF found = {} THEN Len(s) ELSE CHOOSE j \in found : \A k \in found : j <= k

\* text.split(/([.!?]+\s*)/): the pieces between the matches alternate with the
\* captured matches; a match at the start or the end leaves an empty piece there
RECURSIVE splitSentenceParts(_, _, _)
splitSentenceParts(text, from, acc) ==
    LET i == indexOfAny(text, from, sentencePunctChars)
    IN  IF i >= Len(text) THEN Append(acc, substring(text, from, Len(text)))
        ELSE LET end == skipWhile(text, skipWhile(text, i, sentencePunctChars), whitespace)
             IN  splitSentenceParts(text, end,
                     acc \o <<substring(text, from, i), substring(text, i, end)>>)

\* part.match(/[.!?]+\s*/): the pattern is not anchored
matchesPunct(part) == \E j \in 1..Len(part) : part[j] \in sentencePunctChars

\* the reduce callback; `acc[acc.length - 1] += part` on an empty acc sets the
\* property "-1" and adds no element
RECURSIVE reduceParts(_, _, _)
reduceParts(parts, i, acc) ==
    IF i >= Len(parts) THEN acc
    ELSE LET part == parts[i + 1]
         IN  IF part = <<>> THEN reduceParts(parts, i + 1, acc)
             ELSE IF matchesPunct(part) /\ i > 0
             THEN reduceParts(parts, i + 1,
                      IF acc = <<>> THEN acc
                      ELSE [acc EXCEPT ![Len(acc)] = @ \o part])
             ELSE reduceParts(parts, i + 1, Append(acc, part))

isTruthy(str) == str # <<>>

sentencesOf(text) ==
    SelectSeq(reduceParts(splitSentenceParts(text, 0, <<>>), 0, <<>>), isTruthy)

\* the length of s without its trailing whitespace
trimEndIndex(s) ==
    LET found == {j \in 0..(Len(s) - 1) : charAt(s, j) \notin whitespace}
    IN  IF found = {} THEN 0 ELSE 1 + CHOOSE j \in found : \A k \in found : k <= j

trim(s) == substring(s, skipWhile(s, 0, whitespace), trimEndIndex(s))

\* s.split(/\s+/)
RECURSIVE splitWhitespace(_, _, _)
splitWhitespace(s, from, acc) ==
    LET i == indexOfAny(s, from, whitespace)
    IN  IF i >= Len(s) THEN Append(acc, substring(s, from, Len(s)))
        ELSE splitWhitespace(s, skipWhile(s, i, whitespace),
                             Append(acc, substring(s, from, i)))

\* the sentence is tokenised without being trimmed
wordsOfUntrimmed(sentence) == splitWhitespace(sentence, 0, <<>>)

\* sentence.trim().split(/\s+/)
wordsOf(sentence) == splitWhitespace(trim(sentence), 0, <<>>)

\* .map(word => splitIntoSyllables(word)), the calls made in order
RECURSIVE mapSplitIntoSyllables(_, _, _, _)
mapSplitIntoSyllables(words, i, table, acc) ==
    IF i >= Len(words) THEN [groups |-> acc, table |-> table]
    ELSE LET r == splitIntoSyllables(words[i + 1], table)
         IN  mapSplitIntoSyllables(words, i + 1, r.table, Append(acc, r.ret))

\* sentences.forEach(...)
RECURSIVE forEachSentence(_, _, _, _)
forEachSentence(sentences, i, table, segments) ==
    IF i >= Len(sentences) THEN [segments |-> segments, table |-> table]
    ELSE LET sentence == sentences[i + 1]
         IN  IF isTruthy(trim(sentence))
             THEN LET m == mapSplitIntoSyllables(wordsOf(sentence), 0, table, <<>>)
                  IN  forEachSentence(sentences, i + 1, m.table,
                          Append(segments, [text |-> trim(sentence),
                                            syllables |-> m.groups,
                                            type |-> "sentence"]))
             ELSE forEachSentence(sentences, i + 1, table, segments)

\* The evaluation of the computed processedText for a source text, when
\* `previous` is the table object left by the latest splitIntoSyllables call.
processedTextOf(text, previous) ==
    IF ~isTruthy(text) THEN [segments |-> <<>>, table |-> previous]
    ELSE forEachSentence(sentencesOf(text), 0, previous, <<>>)

DefaultText ==
    << "Z","n","a'","t","e"," ","k","r","t","k","a","?"," ","K","r","t",
        "e","k"," ","m","a'"," ","d","o","m","e","c^","e","k"," ","p","o",
        "d"," ","z","e","m","i'",","," ","o","d","k","u","d"," ","v","e",
        "d","e"," ","m","n","o","h","o"," ","c","e","s","t","."," ","K",
        "r","t","e","k"," ","s","e"," ","j","i","m","i"," ","p","r","o",
        "h","a'","n","i'"," ","a"," ","h","l","e","d","a'"," ","c^","e","r",
        "v","y"," ","a"," ","p","o","n","r","a","v","y","."," ","C","i'",
        "t","i'"," ","j","e"," ","z","d","a","l","e","k","a",","," ","n",
        "a","h","m","a","t","a'"," ","j","e"," ","c","i","t","l","i","v",
        "y'","m"," ","r","y","p","a'","c^","k","e","m"," ","a"," ","m","l",
        "s","a'","."," ","P","o","d"," ","z","e","m","i'"," ","j","e"," ",
        "t","m","a",","," ","a","l","e"," ","j","e","m","u"," ","t","o",
        " ","n","e","v","a","d","i'","."," ","J","e","h","o"," ","o","c^",
        "i"," ","s","k","o","r","o"," ","n","e","v","i","d","i'","."," ",
        "N","e","n","o","s","i'"," ","k","a","l","h","o","t","y"," ","j",
        "a","k","o"," ","z","n","a'","m","y'"," ","k","r","t","e","c^","e",
        "k"," ","z"," ","p","o","h","a'","d","k","y",","," ","a","l","e",
        " ","z","a","t","o"," ","m","a'"," ","j","e","m","n","o","u"," ",
        "c^","e","r","n","o","u"," ","s","r","s","t","."," ","Z","a","h",
        "r","a","d","n","i'","c","i"," ","k","r","t","k","a"," ","n","e",
        "m","a","j","i'"," ","m","o","c"," ","r","a'","d","i","."," ","K",
        "a","m"," ","o","k","o"," ","d","o","h","l","e'","d","n","e",",",
        " ","u","m","i'"," ","v","y","h","a'","z","e","t"," ","k","o","p",
        "e","c^","k","y"," ","h","l","i'","n","y","."," ","S^","k","o","d",
        "i'"," ","r","o","s","t","l","i","n","a'","m",","," ","p","o","d",
        "h","r","a","b","a'","v","a'"," ","z","e","l","e","n","i","n","u",
        ","," ","n","i","c^","i'"," ","m","r","k","e","v"," ","i"," ","k",
        "y","t","k","y","."," ","Z","a","h","r","a","d","n","i'","c","i",
        " ","z","n","a","j","i'"," ","r","u*","z","n","e'"," ","t","r","i",
        "k","y",","," ","j","a","k"," ","k","r","t","k","y"," ","z","e",
        " ","z","a","h","r","a","d","y"," ","o","d","l","a'","k","a","t",
        "." >>

----------------------------------------------------------------------------
(* Source texts *)

Pieces ==
    { <<"a">>, <<" ">>, <<".">>, <<"?">>,
      <<"k","r","t","k","a">>, <<"J","d","e">>, <<"p","e","s">> }

Texts == {join(ps) : ps \in UNION {[1..n -> Pieces] : n \in 0..MaxPieces}}

\* the source text after one edit: cleared, or one piece typed at its end
EditsOf(text) == {<<>>} \cup ({text \o p : p \in Pieces} \cap Texts)

InitText ==
    /\ originalText = DefaultText
    /\ processedText = processedTextOf(DefaultText, specialCasesLiteral).segments
    /\ specialCases = processedTextOf(DefaultText, specialCasesLiteral).table
    /\ word = <<>>
    /\ syllables = <<>>
    /\ activeSegment = null
    /\ activeWord = null
    /\ activeSyllable = null
    /\ speechSynthesis = TRUE
    /\ utterances = 0

\* originalText is assigned and the computed processedText is evaluated again
SetOriginalText(text) ==
    LET r == processedTextOf(text, specialCases)
    IN  /\ originalText' = text
        /\ processedText' = r.segments
        /\ specialCases' = r.table
        /\ UNCHANGED <<word, syllables, activeSegment, activeWord, activeSyllable,
                       speechSynthesis, utterances>>

NextText == \E text \in EditsOf(originalText) : SetOriginalText(text)

SpecText == InitText /\ [][NextText]_vars

----------------------------------------------------------------------------
(* Properties of the syllabifier, stated over the drawn word and the value *)
(* returned for it                                                         *)

Returned == syllables # <<>>

RECURSIVE StripPunct(_)
StripPunct(w) ==
    IF w # <<>> /\ w[Len(w)] \in {".", ",", "!", "?", ";", ":"}
    THEN StripPunct(SubSeq(w, 1, Len(w) - 1))
    ELSE w

Stem == StripPunct(word)

TrailingPunct == SubSeq(word, Len(Stem) + 1, Len(word))

IsSpecialCaseWord == Len(word) > 1 /\ toLowerCase(Stem) \in DOMAIN specialCasesLiteral

RECURSIVE TotalLen(_, _)
TotalLen(syls, k) == IF k = 0 THEN 0 ELSE Len(syls[k]) + TotalLen(syls, k - 1)

\* the 0-based position in the word at which syllable k + 1 starts
BoundaryAfter(k) == TotalLen(syllables, k)

LowerAt(i) == charToLowerCase(word[i + 1])

IsVowelAt(i) == LowerAt(i) \in vowels

\* a vowel, or an r/l whose two neighbours are each a non-vowel or the word boundary
NucleusAt(i) ==
    \/ IsVowelAt(i)
    \/ /\ LowerAt(i) \in {"r", "l"}
       /\ i = 0 \/ ~IsVowelAt(i - 1)
       /\ i = Len(Stem) - 1 \/ ~IsVowelAt(i + 1)

Nuclei == {i \in 0..(Len(Stem) - 1) : NucleusAt(i)}

\* the k-th nucleus, k = 1..Cardinality(Nuclei)
NthNucleus(k) == CHOOSE i \in Nuclei : Cardinality({j \in Nuclei : j < i}) = k - 1

\* C1: concatenating the syllables returned for a word reproduces the word
\* exactly, special-case words of any casing included.
C1_RoundTrip == Returned => join(syllables) = word

\* C5: a word whose lowercased stem is a key of the special-case table gets
\* the stored sequence with the stripped punctuation appended to its last
\* syllable; "krtka" gives krt-ka and "mrkev" gives mr-kev.
C5_SpecialCaseVerbatim ==
    /\ (Returned /\ IsSpecialCaseWord) =>
          LET stored == specialCasesLiteral[toLowerCase(Stem)]
          IN  /\ Len(syllables) = Len(stored)
              /\ \A k \in 1..(Len(stored) - 1) : syllables[k] = stored[k]
              /\ syllables[Len(stored)] = stored[Len(stored)] \o TrailingPunct
    /\ (Returned /\ word = <<"k","r","t","k","a">>) =>
          syllables = << <<"k","r","t">>, <<"k","a">> >>
    /\ (Returned /\ word = <<"m","r","k","e","v">>) =>
          syllables = << <<"m","r">>, <<"k","e","v">> >>

C5_Witness ==
    /\ word = <<"M","L","S","A'","!","?">>
    /\ syllables = << <<"m","l">>, <<"s","a'","!","?">> >>

\* the boundary the rules give for nuclei at p < q
RuleBoundary(p, q) ==
    LET count == q - p - 1
        first == LowerAt(p + 1)
        second == LowerAt(p + 2)
    IN  IF count <= 1 THEN p + 1
        ELSE IF count = 2 THEN
            IF \/ first \in obstruents /\ (second = "v" \/ second \notin (obstruents \cup vowels))
               \/ <<first, second>> \in {<<"d^", "m">>, <<"b", "v">>}
            THEN p + 1
            ELSE p + 2
        ELSE p + 2

C8_DigraphKept ==
    (Returned /\ ~IsSpecialCaseWord) =>
        \A k \in 1..(Len(syllables) - 1) :
            LET b == BoundaryAfter(k)
            IN  ~(b >= 1 /\ b < Len(Stem) /\ LowerAt(b - 1) = "c" /\ LowerAt(b) = "h")

----------------------------------------------------------------------------
(* Properties of processedText, stated over the source text and the        *)
(* segments computed for it                                                *)

IsNotWhitespace(c) == c \notin {" ", "\n", "\t"}

NonWhitespace(s) == SelectSeq(s, IsNotWhitespace)

SegmentTexts == join([i \in 1..Len(processedText) |-> processedText[i].text])

EndsSentence(c) == c \in {".", "!", "?"}

\* C2: the sentence splitter loses and duplicates nothing: the segment texts,
\* read in order, hold the non-whitespace characters of the source text in
\* their original order, texts that begin with a run of . ! ? included.
C2_NothingLost == NonWhitespace(SegmentTexts) = NonWhitespace(originalText)

\* C3: a run of . ! ? is appended to the end of the sentence it terminates and
\* never starts a sentence of its own: no segment text begins with, or
\* consists only of, . ! ? characters.
C3_TerminatorNeverAlone ==
    \A i \in 1..Len(processedText) :
        LET text == processedText[i].text
        IN  /\ ~EndsSentence(text[1])
            /\ \E j \in 1..Len(text) : ~EndsSentence(text[j])

IsNonBlank(s) == \E j \in 1..Len(s) : IsNotWhitespace(s[j])

\* t is s without its leading and trailing whitespace
IsTrimOf(t, s) ==
    /\ t # <<>> /\ IsNotWhitespace(t[1]) /\ IsNotWhitespace(t[Len(t)])
    /\ \E a \in 0..Len(s) :
          /\ a + Len(t) <= Len(s)
          /\ SubSeq(s, a + 1, a + Len(t)) = t
          /\ \A j \in (1..a) \cup ((a + Len(t) + 1)..Len(s)) : ~IsNotWhitespace(s[j])

\* the positions at which the whitespace-delimited tokens of t start
TokenStarts(t) ==
    {i \in 1..Len(t) : IsNotWhitespace(t[i]) /\ (i = 1 \/ ~IsNotWhitespace(t[i - 1]))}

\* the token of t that starts at position i
TokenAt(t, i) ==
    SubSeq(t, i, CHOOSE e \in i..Len(t) :
                    /\ \A j \in i..e : IsNotWhitespace(t[j])
                    /\ e = Len(t) \/ ~IsNotWhitespace(t[e + 1]))

NthTokenStart(t, k) ==
    CHOOSE i \in TokenStarts(t) : Cardinality({j \in TokenStarts(t) : j < i}) = k - 1

C6_OneSegmentPerSentence ==
    LET nonBlank == SelectSeq(sentencesOf(originalText), IsNonBlank)
    IN  /\ originalText = <<>> => processedText = <<>>
        /\ Len(processedText) = Len(nonBlank)
        /\ \A i \in 1..Len(processedText) :
              LET seg == processedText[i]
                  n == Cardinality(TokenStarts(seg.text))
              IN  /\ IsTrimOf(seg.text, nonBlank[i])
                  /\ Len(seg.syllables) = n
                  /\ \A k \in 1..n :
                        seg.syllables[k] =
                            splitIntoSyllables(TokenAt(seg.text, NthTokenStart(seg.text, k)),
                                               specialCasesLiteral).ret
        /\ originalText = <<"J","d","e"," ","p","e","s",".">> =>
              processedText =
                  << [text |-> <<"J","d","e"," ","p","e","s",".">>,
                      syllables |-> << << <<"J","d","e">> >>, << <<"p","e","s",".">> >> >>,
                      type |-> "sentence"] >>

C6_Witness ==
    /\ originalText = <<"J","d","e"," ","p","e","s",".">>
    /\ Len(processedText) = 1
    /\ Len(processedText[1].syllables) = 2

----------------------------------------------------------------------------
(* ReadingDisplay: the highlighted unit and the utterances being spoken *)

Indices == 0..MaxIndex

\* the argument lists of the three click handlers of the template:
\* speak(syllable, index, wordIndex, syllableIndex), speak(word, index,
\* wordIndex) and speak(segment.text, index)
Clicks ==
    (Indices \X Indices \X Indices)
    \cup (Indices \X Indices \X {null})
    \cup (Indices \X {null} \X {null})

InitSpeak ==
    /\ activeSegment = null
    /\ activeWord = null
    /\ activeSyllable = null
    /\ speechSynthesis \in BOOLEAN
    /\ utterances = 0
    /\ word = <<>>
    /\ syllables = <<>>
    /\ specialCases = specialCasesLiteral
    /\ originalText = <<>>
    /\ processedText = <<>>

\* speak(text, index, wordIndex, syllableIndex)
speak(index, wordIndex, syllableIndex) ==
    IF ~speechSynthesis
    THEN UNCHANGED vars
    ELSE /\ utterances < MaxUtterances
         /\ activeSegment' = index
         /\ activeWord' = wordIndex
         /\ activeSyllable' = syllableIndex
         /\ utterances' = utterances + 1
         /\ UNCHANGED <<word, syllables, specialCases, originalText, processedText,
                        speechSynthesis>>

\* the callback forgets the word and syllable refs
onendSegmentOnly ==
    /\ utterances > 0
    /\ utterances' = utterances - 1
    /\ activeSegment' = null
    /\ UNCHANGED <<activeWord, activeSyllable, word, syllables, specialCases,
                   originalText, processedText, speechSynthesis>>

\* utterance.onend, called by the speech engine when an utterance has ended
onend ==
    /\ utterances > 0
    /\ utterances' = utterances - 1
    /\ activeSegment' = null
    /\ activeWord' = null
    /\ activeSyllable' = null
    /\ UNCHANGED <<word, syllables, specialCases, originalText, processedText,
                   speechSynthesis>>

NextSpeak ==
    \/ \E click \in Clicks : speak(click[1], click[2], click[3])
    \/ onend

SpecSpeak == InitSpeak /\ [][NextSpeak]_vars

NoUnitActive == activeSegment = null /\ activeWord = null /\ activeSyllable = null

\* C9: with speech synthesis available speak sets the three active refs to the
\* clicked unit and every completion callback resets them to null, so under
\* every interleaving of requests and completions no unit is highlighted once
\* every requested utterance has completed; without speech synthesis speak
\* leaves the three refs unchanged.
C9_HighlightCleared ==
    /\ [](utterances = 0 => NoUnitActive)
    /\ [][/\ utterances' > utterances =>
                <<activeSegment', activeWord', activeSyllable'>> \in Clicks
          /\ utterances' < utterances => NoUnitActive'
          /\ ~speechSynthesis =>
                UNCHANGED <<activeSegment, activeWord, activeSyllable>>]_vars

\* a request is still being spoken after the completion of an overlapping one
C9_Witness == speechSynthesis /\ utterances = 1 /\ NoUnitActive

====
